---- MODULE Spec2Model ----
(***************************************************************************)
(* The resume wizard of From-JD-to-Resume: the App component's state, its  *)
(* event handlers and the continuations of its asynchronous calls.         *)
(*                                                                         *)
(* The repository holds two revisions of the same component:               *)
(*   src/index.tsx          (variant "index")                              *)
(*   src/unnamed/part_000   (variant "part_000")                           *)
(* The variable `variant` says which of the two is running; an action      *)
(* whose code differs between the two branches on it.                      *)
(*                                                                         *)
(* Texts are sequences of tokens.  A token stands for a piece of text of   *)
(* one origin: a typed character, a white-space character, the transcript  *)
(* of a recognition result, the content of a file, the text of a response. *)
(* loadingMsg (part_000:59) is display-only and is left out.               *)
(***************************************************************************)
EXTENDS Integers, Sequences, FiniteSets, Bags, TLC

\* ------------------------------------------------------------------ bounds
\* the longest text the model lets the user type into the raw-input field
MaxTyped == 1
\* the number of asynchronous operations (calls, file reads) in flight
MaxPending == 2
\* the longest text the model lets recognition results grow rawText to
MaxRaw == 4
\* the number of results one recognition event carries
MaxResults == 2
\* the number of recognizers alive besides the one the ref holds
MaxOrphans == 1

\* ------------------------------------------------------------------ texts
Space == " "
Newline == "\n"
Whitespace == {Space, Newline}

\* the value JavaScript's `undefined` has once it is turned into text
Undefined == <<"undefined">>
Empty == <<>>

\* String.prototype.trim
RECURSIVE TrimLeft(_)
TrimLeft(s) ==
  IF s # <<>> /\ Head(s) \in Whitespace THEN TrimLeft(Tail(s)) ELSE s

RECURSIVE TrimRight(_)
TrimRight(s) ==
  IF s # <<>> /\ s[Len(s)] \in Whitespace
    THEN TrimRight(SubSeq(s, 1, Len(s) - 1))
    ELSE s

trim(s) == TrimRight(TrimLeft(s))

\* a text in a boolean context: '' and undefined are falsy
Truthy(t) == t # Empty /\ t # Undefined

\* `t || ''`
OrEmpty(t) == IF Truthy(t) THEN t ELSE Empty

\* ------------------------------------------------------- structured output
AnalysisFields ==
  {"score", "dnaComparison", "pros", "cons", "conclusion", "alternatives"}

Null == [kind |-> "null", fields |-> {}, score |-> 0]
AnalysisObject(f, s) == [kind |-> "object", fields |-> f, score |-> s]

\* the documents the comparison call is let to answer with
FitDocs ==
  { Null,
    AnalysisObject({}, 0),
    AnalysisObject(AnalysisFields, 90),
    AnalysisObject(AnalysisFields \ {"alternatives"}, 40) }

DraftNull == [kind |-> "null", resumeMarkdown |-> Undefined, critiques |-> Undefined]
DraftObject(r, c) == [kind |-> "object", resumeMarkdown |-> r, critiques |-> c]

\* the documents the drafting call is let to answer with; a field that is
\* absent reads as undefined
DraftDocs ==
  { DraftNull,
    DraftObject(Undefined, Undefined),
    DraftObject(<<"D1">>, Undefined),
    DraftObject(Undefined, <<"fatal", "minor">>),
    DraftObject(<<"D1">>, <<"fatal", "minor">>) }

\* response.text of a call with a response schema: absent, '', text that is
\* no JSON, or a JSON document
JsonTexts(docs) ==
  { [form |-> f, doc |-> CHOOSE d \in docs : d.kind = "null"] :
       f \in {"undefined", "empty", "malformed"} }
  \cup { [form |-> "json", doc |-> d] : d \in docs }

\* `response.text || '{}'` followed by JSON.parse: the parsed value, or a
\* SyntaxError
ParseOrEmptyObject(t, emptyObject) ==
  CASE t.form \in {"undefined", "empty"} -> [threw |-> FALSE, value |-> emptyObject]
    [] t.form = "malformed" -> [threw |-> TRUE, value |-> emptyObject]
    [] OTHER -> [threw |-> FALSE, value |-> t.doc]

\* ------------------------------------------------------------------ state
VARIABLES
  variant,        \* which revision of the component runs
  mounted,        \* the component tree is mounted (no render has thrown)
  step,           \* useState(0)
  lang,           \* useState<Language>('zh')
  loading,        \* useState(false)
  rawText,        \* useState('')
  interimText,    \* useState('') (part_000 only; stays '' in index)
  isRecording,    \* useState(false)
  experienceDoc,  \* useState<string>('')
  jd,             \* useState('')
  analysis,       \* useState<AnalysisResult | null>(null)
  resumeDraft,    \* useState<string>('')
  critiques,      \* useState<Critique[]>([])
  finalResume,    \* useState<string>('')
  recognition,    \* the recognizer held by recognitionRef.current
  orphans,        \* recognizers no longer held by the ref but still alive
  pending,        \* asynchronous operations in flight
  notification,   \* the alert() raised by the last handler run, or "none"
  ev              \* the last handler run: its name and how it ended (kept
                  \* for the properties; no handler reads it)

wizardVars == <<step, experienceDoc, jd, analysis, resumeDraft, critiques, finalResume>>
speechVars == <<lang, interimText, isRecording, recognition, orphans>>
vars ==
  <<variant, mounted, step, lang, loading, rawText, interimText, isRecording,
    experienceDoc, jd, analysis, resumeDraft, critiques, finalResume,
    recognition, orphans, pending, notification, ev>>

Variants == {"index", "part_000"}

Event(n, o) == [name |-> n, outcome |-> o]

\* a recognizer: its state, and the isRecording its onend handler closed over
Recognizer(st, c) == [state |-> st, closure |-> c]

Init ==
  /\ variant \in Variants
  /\ mounted = TRUE
  /\ step = 0
  /\ lang = "zh"
  /\ loading = FALSE
  /\ rawText = Empty
  /\ interimText = Empty
  /\ isRecording = FALSE
  /\ experienceDoc = Empty
  /\ jd = Empty
  /\ analysis = Null
  /\ resumeDraft = Empty
  /\ critiques = <<>>
  /\ finalResume = Empty
  /\ recognition \in {Recognizer("absent", FALSE), Recognizer("idle", FALSE)}
  /\ orphans = <<>>
  /\ pending = EmptyBag
  /\ notification = "none"
  /\ ev = Event("mount", "ok")

\* ----------------------------------------------------------------- render
\* The render of a step dereferences the artifacts it shows; a render that
\* throws unmounts the whole tree (there is no error boundary).
RenderThrows(s, an, cr) ==
  \/ /\ s = 2
     /\ an.kind = "object"
     /\ \/ {"dnaComparison", "pros", "cons"} \ an.fields # {}
        \/ /\ "score" \in an.fields
           /\ an.score < 60
           /\ "alternatives" \notin an.fields
  \/ /\ s = 3
     /\ cr = Undefined

\* An element under <main> can be reached with the pointer only while the
\* loading overlay is not drawn over it; the keyboard reaches the focused
\* element whether or not the overlay is drawn.
Inputs == {"pointer", "keyboard"}
Reaches(via) == via = "keyboard" \/ ~loading

Call(op) == [kind |-> "call", op |-> op, file |-> "none"]

\* what a handler that leaves the recognizers and the texts alone keeps
Quiet == UNCHANGED <<variant, speechVars>>

\* the render that follows the state updates of a handler
Commit == mounted' = ~RenderThrows(step', analysis', critiques')

\* ------------------------------------------------------ Extract Experience
ExtractTexts == {Undefined, Empty, <<"E1">>}

\* The user activates the Organize button: handleProcessBrainstorm up to its
\* await.  On blank raw input the button is disabled and dispatches no
\* click, and the handler returns at once (`if (!rawText.trim()) return`):
\* either way nothing is set.
handleProcessBrainstorm(via) ==
  LET blank == trim(rawText) = Empty IN
  /\ mounted /\ step = 0 /\ Reaches(via)
  /\ IF blank
       THEN UNCHANGED <<loading, pending>>
       ELSE /\ BagCardinality(pending) < MaxPending
            /\ loading' = TRUE
            /\ pending' = pending (+) SetToBag({Call("extract")})
  /\ notification' = "none"
  /\ ev' = Event("handleProcessBrainstorm", IF blank THEN "ignored" ELSE "called")
  /\ UNCHANGED <<mounted, rawText, wizardVars>>
  /\ Quiet

\* handleProcessBrainstormResolved with a continuation that also clears the
\* Job Description
handleProcessBrainstormResolvedClearsJd(text) ==
  /\ mounted /\ BagIn(Call("extract"), pending)
  /\ experienceDoc' = OrEmpty(text)
  /\ step' = 1
  /\ jd' = Empty
  /\ loading' = FALSE
  /\ pending' = pending (-) SetToBag({Call("extract")})
  /\ notification' = "none"
  /\ ev' = Event("handleProcessBrainstorm", "resolved")
  /\ UNCHANGED <<rawText, analysis, resumeDraft, critiques, finalResume>>
  /\ Commit
  /\ Quiet

\* handleProcessBrainstormResolved with a continuation that stores the raw
\* input in place of the response
handleProcessBrainstormResolvedStoresRaw(text) ==
  /\ mounted /\ BagIn(Call("extract"), pending)
  /\ experienceDoc' = rawText
  /\ step' = 1
  /\ loading' = FALSE
  /\ pending' = pending (-) SetToBag({Call("extract")})
  /\ notification' = "none"
  /\ ev' = Event("handleProcessBrainstorm", "resolved")
  /\ UNCHANGED <<rawText, jd, analysis, resumeDraft, critiques, finalResume>>
  /\ Commit
  /\ Quiet

\* the call answers: the statements after the await, then finally
handleProcessBrainstormResolved(text) ==
  /\ mounted /\ BagIn(Call("extract"), pending)
  /\ experienceDoc' = OrEmpty(text)
  /\ step' = 1
  /\ loading' = FALSE
  /\ pending' = pending (-) SetToBag({Call("extract")})
  /\ notification' = "none"
  /\ ev' = Event("handleProcessBrainstorm", "resolved")
  /\ UNCHANGED <<rawText, jd, analysis, resumeDraft, critiques, finalResume>>
  /\ Commit
  /\ Quiet

\* the call fails: catch, then finally
handleProcessBrainstormRejected ==
  /\ mounted /\ BagIn(Call("extract"), pending)
  /\ notification' = "AI processing failed. Please try again."
  /\ loading' = FALSE
  /\ pending' = pending (-) SetToBag({Call("extract")})
  /\ ev' = Event("handleProcessBrainstorm", "rejected")
  /\ UNCHANGED <<mounted, rawText, wizardVars>>
  /\ Quiet

\* ------------------------------------------------------------- Compute Fit
EmptyAnalysis == AnalysisObject({}, 0)

\* the comparison call; of what its prompt carries, the Job Description of
\* the render that invoked it is kept
FitCall(description) ==
  [kind |-> "call", op |-> "fit", file |-> "none", jd |-> description]

\* the comparison calls in flight
FitCalls == { c \in BagToSet(pending) : c.op = "fit" }

\* handleFitCheck on a button that is never disabled and with no early
\* return
handleFitCheckUnguarded(via) ==
  /\ mounted /\ step = 1 /\ Reaches(via)
  /\ BagCardinality(pending) < MaxPending
  /\ loading' = TRUE
  /\ pending' = pending (+) SetToBag({FitCall(jd)})
  /\ notification' = "none"
  /\ ev' = Event("handleFitCheck", IF trim(jd) = Empty THEN "ignored" ELSE "called")
  /\ UNCHANGED <<mounted, rawText, wizardVars>>
  /\ Quiet

\* The user activates the Run Fit Check button: handleFitCheck up to its
\* await.  On a blank Job Description the button is disabled and the handler
\* returns at once (`if (!jd.trim()) return`).
handleFitCheck(via) ==
  LET blank == trim(jd) = Empty IN
  /\ mounted /\ step = 1 /\ Reaches(via)
  /\ IF blank
       THEN UNCHANGED <<loading, pending>>
       ELSE /\ BagCardinality(pending) < MaxPending
            /\ loading' = TRUE
            /\ pending' = pending (+) SetToBag({FitCall(jd)})
  /\ notification' = "none"
  /\ ev' = Event("handleFitCheck", IF blank THEN "ignored" ELSE "called")
  /\ UNCHANGED <<mounted, rawText, wizardVars>>
  /\ Quiet

\* the call answers: JSON.parse, setAnalysis, setStep(2); a SyntaxError of
\* JSON.parse goes to catch
handleFitCheckResolved(text) ==
  LET parsed == ParseOrEmptyObject(text, EmptyAnalysis) IN
  /\ mounted
  /\ IF parsed.threw
       THEN /\ notification' = "Analysis failed."
            /\ ev' = Event("handleFitCheck", "threw")
            /\ UNCHANGED <<analysis, step>>
       ELSE /\ analysis' = parsed.value
            /\ step' = 2
            /\ notification' = "none"
            /\ ev' = Event("handleFitCheck", "resolved")
  /\ loading' = FALSE
  /\ \E c \in FitCalls : pending' = pending (-) SetToBag({c})
  /\ UNCHANGED <<rawText, experienceDoc, jd, resumeDraft, critiques, finalResume>>
  /\ Commit
  /\ Quiet

\* handleFitCheckRejected with a catch that also sends the wizard back
handleFitCheckRejectedResets ==
  /\ mounted
  /\ notification' = "Analysis failed."
  /\ loading' = FALSE
  /\ \E c \in FitCalls : pending' = pending (-) SetToBag({c})
  /\ ev' = Event("handleFitCheck", "rejected")
  /\ step' = 0
  /\ UNCHANGED <<mounted, rawText, experienceDoc, jd, analysis, resumeDraft,
                 critiques, finalResume>>
  /\ Quiet

handleFitCheckRejected ==
  /\ mounted
  /\ notification' = "Analysis failed."
  /\ loading' = FALSE
  /\ \E c \in FitCalls : pending' = pending (-) SetToBag({c})
  /\ ev' = Event("handleFitCheck", "rejected")
  /\ UNCHANGED <<mounted, rawText, wizardVars>>
  /\ Quiet

\* ------------------------------------------------------------ Draft Resume
EmptyDraft == DraftObject(Undefined, Undefined)

\* the Draft Resume button (drawn at step 2 when analysis is truthy) and
\* handleGenerateDraft up to its await
handleGenerateDraft(via) ==
  /\ mounted /\ step = 2 /\ analysis.kind # "null" /\ Reaches(via)
  /\ BagCardinality(pending) < MaxPending
  /\ loading' = TRUE
  /\ pending' = pending (+) SetToBag({Call("draft")})
  /\ notification' = "none"
  /\ ev' = Event("handleGenerateDraft", "called")
  /\ UNCHANGED <<mounted, rawText, wizardVars>>
  /\ Quiet

\* the call answers: JSON.parse, data.resumeMarkdown, data.critiques,
\* setStep(3); a SyntaxError, or the TypeError of reading a property of
\* null, goes to catch
handleGenerateDraftResolved(text) ==
  LET parsed == ParseOrEmptyObject(text, EmptyDraft)
      threw == parsed.threw \/ parsed.value.kind = "null"
  IN
  /\ mounted /\ BagIn(Call("draft"), pending)
  /\ IF threw
       THEN /\ notification' = "Generation failed."
            /\ ev' = Event("handleGenerateDraft", "threw")
            /\ UNCHANGED <<resumeDraft, critiques, step>>
       ELSE /\ resumeDraft' = parsed.value.resumeMarkdown
            /\ critiques' = parsed.value.critiques
            /\ step' = 3
            /\ notification' = "none"
            /\ ev' = Event("handleGenerateDraft", "resolved")
  /\ loading' = FALSE
  /\ pending' = pending (-) SetToBag({Call("draft")})
  /\ UNCHANGED <<rawText, experienceDoc, jd, analysis, finalResume>>
  /\ Commit
  /\ Quiet

handleGenerateDraftRejected ==
  /\ mounted /\ BagIn(Call("draft"), pending)
  /\ notification' = "Generation failed."
  /\ loading' = FALSE
  /\ pending' = pending (-) SetToBag({Call("draft")})
  /\ ev' = Event("handleGenerateDraft", "rejected")
  /\ UNCHANGED <<mounted, rawText, wizardVars>>
  /\ Quiet

\* ------------------------------------------------------------------ Polish
PolishTexts == {Undefined, Empty, <<"R1">>}

\* the polishing call: its prompt carries the corrections it was invoked with
PolishCall(additionalInfo) ==
  [kind |-> "call", op |-> "polish", file |-> "none",
   additionalInfo |-> additionalInfo]

\* the polishing calls in flight
PolishCalls == { c \in BagToSet(pending) : c.op = "polish" }

\* the two buttons of step 3 (Apply & Regenerate passes the text of the
\* extra-info field, Final ATS Polish passes nothing) and handleFinalPolish
\* up to its await; the argument only enters the prompt
handleFinalPolish(via, additionalInfo) ==
  /\ mounted /\ step = 3 /\ Reaches(via)
  /\ BagCardinality(pending) < MaxPending
  /\ loading' = TRUE
  /\ pending' = pending (+) SetToBag({PolishCall(additionalInfo)})
  /\ notification' = "none"
  /\ ev' = Event("handleFinalPolish", "called")
  /\ UNCHANGED <<mounted, rawText, wizardVars>>
  /\ Quiet

handleFinalPolishResolved(text) ==
  /\ mounted
  /\ finalResume' = OrEmpty(text)
  /\ step' = 4
  /\ loading' = FALSE
  /\ \E c \in PolishCalls : pending' = pending (-) SetToBag({c})
  /\ notification' = "none"
  /\ ev' = Event("handleFinalPolish", "resolved")
  /\ UNCHANGED <<rawText, experienceDoc, jd, analysis, resumeDraft, critiques>>
  /\ Commit
  /\ Quiet

\* the call fails: catch only logs
handleFinalPolishRejected ==
  /\ mounted
  /\ notification' = "none"
  /\ loading' = FALSE
  /\ \E c \in PolishCalls : pending' = pending (-) SetToBag({c})
  /\ ev' = Event("handleFinalPolish", "rejected")
  /\ UNCHANGED <<mounted, rawText, wizardVars>>
  /\ Quiet

\* -------------------------------------------------------------- text fields
\* the value attribute of the raw-input textarea
Displayed ==
  IF variant = "part_000" /\ Truthy(interimText)
    THEN rawText \o <<Space, "(">> \o interimText \o <<"...)">>
    ELSE rawText

\* what the user can turn the content of a text field into with one edit:
\* a character typed at the end, the last character deleted, all deleted
Edits(value, typed) ==
  { value \o <<c>> : c \in typed }
  \cup { SubSeq(value, 1, Len(value) - 1) : x \in {v \in {value} : v # Empty} }
  \cup { Empty }

\* onChange of the raw-input textarea (drawn at step 0)
EditRawText(value) ==
  /\ mounted /\ step = 0
  /\ value # Displayed
  /\ rawText' = value
  /\ notification' = "none"
  /\ ev' = Event("EditRawText", "ok")
  /\ UNCHANGED <<mounted, loading, pending, wizardVars>>
  /\ Quiet

\* the job descriptions the user is let to paste or type
JdTexts == {Empty, <<Space>>, <<"J1">>}

\* onChange of the JD textarea (drawn at step 1)
EditJd(value) ==
  /\ mounted /\ step = 1
  /\ value # jd
  /\ jd' = value
  /\ notification' = "none"
  /\ ev' = Event("EditJd", "ok")
  /\ UNCHANGED <<mounted, loading, pending, rawText, step, experienceDoc,
                 analysis, resumeDraft, critiques, finalResume>>
  /\ Quiet

\* ---------------------------------------------------------------- navigation
\* Back with a handler that also drops the Fit Analysis
BackInvalidates(via, from, to) ==
  /\ mounted /\ step = from /\ Reaches(via)
  /\ from = 2 => analysis.kind # "null"
  /\ step' = to
  /\ analysis' = Null
  /\ notification' = "none"
  /\ ev' = Event("Back", "ok")
  /\ UNCHANGED <<loading, pending, rawText, experienceDoc, jd,
                 resumeDraft, critiques, finalResume>>
  /\ Commit
  /\ Quiet

\* a back button: onClick={() => setStep(to)}
Back(via, from, to) ==
  /\ mounted /\ step = from /\ Reaches(via)
  /\ from = 2 => analysis.kind # "null"       \* step === 2 && analysis
  /\ step' = to
  /\ notification' = "none"
  /\ ev' = Event("Back", "ok")
  /\ UNCHANGED <<loading, pending, rawText, experienceDoc, jd, analysis,
                 resumeDraft, critiques, finalResume>>
  /\ Commit
  /\ Quiet

\* the back buttons the views draw: step 1 to 0, step 2 to 1 (the arrow and
\* Modify JD), step 4 to 3
BackButtons == {<<1, 0>>, <<2, 1>>, <<4, 3>>}

\* StartOver without setJd('')
StartOverKeepsJd(via) ==
  /\ mounted /\ step = 4 /\ Reaches(via)
  /\ step' = 0
  /\ rawText' = Empty
  /\ experienceDoc' = Empty
  /\ notification' = "none"
  /\ ev' = Event("StartOver", "ok")
  /\ UNCHANGED <<loading, pending, jd, analysis, resumeDraft, critiques, finalResume>>
  /\ Commit
  /\ Quiet

\* the Start Over / Create Another button of step 4
StartOver(via) ==
  /\ mounted /\ step = 4 /\ Reaches(via)
  /\ step' = 0
  /\ rawText' = Empty
  /\ jd' = Empty
  /\ experienceDoc' = Empty
  /\ notification' = "none"
  /\ ev' = Event("StartOver", "ok")
  /\ UNCHANGED <<loading, pending, analysis, resumeDraft, critiques, finalResume>>
  /\ Commit
  /\ Quiet

\* ------------------------------------------------------------ recognizers
\* SpeechRecognition.stop(): a started recognizer stops listening and still
\* hands over what it has; it has ended once its end event fires
Stop(r) == IF r.state = "started" THEN [r EXCEPT !.state = "stopping"] ELSE r

\* start() throws InvalidStateError on a recognizer that was started and
\* whose end event has not fired yet
Alive(r) == r.state \in {"started", "stopping", "ending"}

\* a recognizer that can fire a result event
Delivers(r) == r.state \in {"started", "stopping"}

\* The body of the useEffect, which runs after a render that changed one of
\* its dependencies: cur and orph are the recognizers as the handler left
\* them, rec is the isRecording of the new render.  part_000 stops the old
\* recognizer before it replaces it, index does not; the old recognizer
\* lives on, out of the ref's reach, until it ends.
useEffect(cur, orph, rec) ==
  IF cur.state = "absent"
    THEN [recognition |-> cur, orphans |-> orph]
    ELSE LET old == IF variant = "part_000" THEN Stop(cur) ELSE cur IN
         [recognition |-> Recognizer("idle", variant = "part_000" /\ rec),
          orphans |-> IF Alive(old) THEN orph (+) SetToBag({old}) ELSE orph]

\* the dependencies of the effect: [lang, isRecording] in part_000, [lang]
\* in index
EffectRuns(l, rec) ==
  \/ l # lang
  \/ variant = "part_000" /\ rec # isRecording

\* the recognizers after a handler that left them as cur and orph and set
\* lang and isRecording to l and rec
AfterRender(cur, orph, l, rec) ==
  IF EffectRuns(l, rec)
    THEN useEffect(cur, orph, rec)
    ELSE [recognition |-> cur, orphans |-> orph]

\* the language button of the header
toggleLang ==
  LET l == IF lang = "en" THEN "zh" ELSE "en"
      after == AfterRender(recognition, orphans, l, isRecording)
  IN
  /\ mounted
  /\ BagCardinality(after.orphans) <= MaxOrphans
  /\ lang' = l
  /\ recognition' = after.recognition
  /\ orphans' = after.orphans
  /\ notification' = "none"
  /\ ev' = Event("toggleLang", "ok")
  /\ UNCHANGED <<variant, mounted, loading, pending, rawText, interimText,
                 isRecording, wizardVars>>

\* toggleRecording with a stop branch that commits the displayed partial
\* segment
toggleRecordingCommitsPartial(via) ==
  LET threw == ~isRecording /\ Alive(recognition)
      cur == CASE recognition.state = "absent" -> recognition
               [] isRecording -> Stop(recognition)
               [] threw -> recognition
               [] OTHER -> [recognition EXCEPT !.state = "started"]
      rec == IF threw THEN isRecording ELSE ~isRecording
      after == AfterRender(cur, orphans, lang, rec)
  IN
  /\ mounted /\ step = 0 /\ Reaches(via)
  /\ BagCardinality(after.orphans) <= MaxOrphans
  /\ isRecording' = rec
  /\ rawText' = IF isRecording THEN rawText \o interimText ELSE rawText
  /\ interimText' = Empty
  /\ recognition' = after.recognition
  /\ orphans' = after.orphans
  /\ notification' = "none"
  /\ ev' = Event("toggleRecording",
                 CASE threw -> "threw"
                   [] rec -> "started"
                   [] Truthy(interimText) -> "discarded"
                   [] OTHER -> "stopped")
  /\ UNCHANGED <<variant, mounted, lang, loading, pending, wizardVars>>

\* the microphone button (drawn at step 0)
toggleRecording(via) ==
  LET threw == ~isRecording /\ Alive(recognition)
      cur == CASE recognition.state = "absent" -> recognition
               [] isRecording -> Stop(recognition)
               [] threw -> recognition
               [] OTHER -> [recognition EXCEPT !.state = "started"]
      rec == IF threw THEN isRecording ELSE ~isRecording
      after == AfterRender(cur, orphans, lang, rec)
  IN
  /\ mounted /\ step = 0 /\ Reaches(via)
  /\ BagCardinality(after.orphans) <= MaxOrphans
  /\ isRecording' = rec
  /\ interimText' = Empty
  /\ recognition' = after.recognition
  /\ orphans' = after.orphans
  /\ notification' = "none"
  /\ ev' = Event("toggleRecording",
                 CASE threw -> "threw"
                   [] rec -> "started"
                   [] Truthy(interimText) -> "discarded"
                   [] OTHER -> "stopped")
  /\ UNCHANGED <<variant, mounted, lang, loading, pending, rawText, wizardVars>>

\* ------------------------------------------------------ recognition events
FinalTranscripts == {<<"F1">>, <<"F2">>}
InterimTranscripts == {<<"P1">>}

Result(f, t) == [isFinal |-> f, transcript |-> t]
Results ==
  { Result(TRUE, t) : t \in FinalTranscripts }
  \cup { Result(FALSE, t) : t \in InterimTranscripts }

\* event.results from event.resultIndex on
ResultLists == UNION { [1..n -> Results] : n \in 1..MaxResults }

\* the transcripts of a list of results, concatenated in order
RECURSIVE Transcripts(_)
Transcripts(results) ==
  IF results = <<>>
    THEN Empty
    ELSE Head(results).transcript \o Transcripts(Tail(results))

IsFinal(r) == r.isFinal
IsInterim(r) == ~r.isFinal

\* onresultRawText with the final transcripts appended a second time
onresultRawTextTwice(results) ==
  LET finalForThisBlock == Transcripts(SelectSeq(results, IsFinal)) IN
  IF variant = "part_000"
    THEN IF Truthy(finalForThisBlock)
           THEN rawText \o finalForThisBlock \o finalForThisBlock \o <<Space>>
           ELSE rawText
    ELSE rawText \o <<Space>> \o Transcripts(results) \o finalForThisBlock

\* what onresult sets rawText to
onresultRawText(results) ==
  IF variant = "part_000"
    THEN LET finalForThisBlock == Transcripts(SelectSeq(results, IsFinal)) IN
         IF Truthy(finalForThisBlock)
           THEN rawText \o finalForThisBlock \o <<Space>>
           ELSE rawText
    ELSE rawText \o <<Space>> \o Transcripts(results)

\* what onresult sets interimText to (index has no interimText)
onresultInterimText(results) ==
  IF variant = "part_000" THEN Transcripts(SelectSeq(results, IsInterim)) ELSE interimText

\* a recognizer, held by the ref or not, fires a result event
onresult(results) ==
  /\ mounted
  /\ \/ Delivers(recognition)
     \/ \E r \in BagToSet(orphans) : Delivers(r)
  /\ Len(onresultRawText(results)) <= MaxRaw
  /\ rawText' = onresultRawText(results)
  /\ interimText' = onresultInterimText(results)
  /\ notification' = "none"
  /\ ev' = Event("onresult", "ok")
  /\ UNCHANGED <<variant, mounted, lang, loading, pending, isRecording,
                 recognition, orphans, wizardVars>>

\* the recognizer src stands for a recognizer of the same state and closure:
\* the one the ref holds (held) or an orphan
Among(src, held) ==
  IF held THEN src = recognition ELSE BagIn(src, orphans)

\* the recognizers once src has changed into to
Replaced(src, held, to) ==
  IF held
    THEN [recognition |-> to, orphans |-> orphans]
    ELSE [recognition |-> recognition,
          orphans |-> (orphans (-) SetToBag({src})) (+) SetToBag({to})]

\* onerror with a handler that also alerts
onerrorAlerts(src, held) ==
  LET now == Replaced(src, held, [src EXCEPT !.state = "ending"])
      after == AfterRender(now.recognition, now.orphans, lang, FALSE)
  IN
  /\ mounted
  /\ Among(src, held) /\ Delivers(src)
  /\ BagCardinality(after.orphans) <= MaxOrphans
  /\ isRecording' = FALSE
  /\ recognition' = after.recognition
  /\ orphans' = after.orphans
  /\ notification' = "Speech recognition error"
  /\ ev' = Event("onerror", IF isRecording THEN "stopped" ELSE "ok")
  /\ UNCHANGED <<variant, mounted, lang, loading, pending, rawText,
                 interimText, wizardVars>>

\* a recognizer fires an error event: it will end without further results
onerror(src, held) ==
  LET now == Replaced(src, held, [src EXCEPT !.state = "ending"])
      after == AfterRender(now.recognition, now.orphans, lang, FALSE)
  IN
  /\ mounted
  /\ Among(src, held) /\ Delivers(src)
  /\ BagCardinality(after.orphans) <= MaxOrphans
  /\ isRecording' = FALSE
  /\ recognition' = after.recognition
  /\ orphans' = after.orphans
  /\ notification' = "none"
  /\ ev' = Event("onerror", IF isRecording THEN "stopped" ELSE "ok")
  /\ UNCHANGED <<variant, mounted, lang, loading, pending, rawText,
                 interimText, wizardVars>>

\* a recognizer fires its end event: after stop(), after an error, or on its
\* own account.  part_000's onend starts the recognizer the ref holds now
\* when the render that made the ended one was recording; start() throws on
\* a recognizer that is alive, and nothing catches or needs that.
onend(src, held) ==
  LET ended == IF held
                 THEN [recognition |-> [src EXCEPT !.state = "idle"], orphans |-> orphans]
                 ELSE [recognition |-> recognition, orphans |-> orphans (-) SetToBag({src})]
      restart == variant = "part_000" /\ src.closure /\ ~Alive(ended.recognition)
  IN
  /\ mounted
  /\ Among(src, held) /\ Alive(src)
  /\ recognition' = IF restart
                      THEN [ended.recognition EXCEPT !.state = "started"]
                      ELSE ended.recognition
  /\ orphans' = ended.orphans
  /\ notification' = "none"
  /\ ev' = Event("onend", IF restart THEN "restarted" ELSE "ok")
  /\ UNCHANGED <<variant, mounted, lang, loading, pending, rawText,
                 interimText, isRecording, wizardVars>>

Recognizers == {recognition} \cup BagToSet(orphans)

\* ------------------------------------------------------------- voice input
NextSpeech ==
  \/ toggleLang
  \/ \E via \in Inputs : toggleRecording(via)
  \/ \E results \in ResultLists : onresult(results)
  \/ \E src \in Recognizers, held \in BOOLEAN : onerror(src, held)
  \/ \E src \in Recognizers, held \in BOOLEAN : onend(src, held)
  \/ \E v \in Edits(Displayed, {"u"}) :
       /\ Len(v) <= MaxTyped \/ (Len(v) < Len(Displayed) /\ Len(v) <= MaxRaw)
       /\ EditRawText(v)

SpecSpeech == Init /\ [][NextSpeech]_vars

\* -------------------------------------------------------------- file upload
FileTypes == {"image", "pdf", "text"}

Read(method, file) == [kind |-> "read", op |-> method, file |-> file]

\* how handleFileUpload reads a file of a type: part_000 sends PDFs and
\* images through readAsDataURL to the vision call and reads the rest as
\* text; index sends images only and reads the rest with file.text()
ReadOf(file) ==
  IF variant = "part_000"
    THEN IF file \in {"pdf", "image"}
           THEN Read("readAsDataURL", file)
           ELSE Read("readAsText", file)
    ELSE IF file = "image"
           THEN Read("readAsDataURL", file)
           ELSE Read("text", file)

\* the content of a file read as text
FileText(file) == IF file = "pdf" THEN <<"%PDF">> ELSE <<"T">>

VisionTexts == {Undefined, Empty, <<"V">>}

Uploads == { c \in BagToSet(pending) : c.kind = "read" \/ c.op = "vision" }
UploadsInFlight == BagCardinality([c \in Uploads |-> pending[c]])

\* onChange of the file input (drawn at step 0; the input is hidden inside
\* its label, so only the pointer opens it) up to the start of the read
handleFileUpload(file) ==
  /\ mounted /\ step = 0 /\ Reaches("pointer")
  /\ BagCardinality(pending) < MaxPending
  /\ Len(rawText) + 2 * (UploadsInFlight + 1) <= MaxRaw
  /\ loading' = TRUE
  /\ pending' = pending (+) SetToBag({ReadOf(file)})
  /\ notification' = "none"
  /\ ev' = Event("handleFileUpload", "called")
  /\ UNCHANGED <<mounted, rawText, wizardVars>>
  /\ Quiet

\* reader.onload of an image or PDF, up to the await of the vision call
readerOnloadDataURL(r) ==
  /\ mounted /\ BagIn(r, pending) /\ r.kind = "read" /\ r.op = "readAsDataURL"
  /\ pending' = (pending (-) SetToBag({r})) (+) SetToBag({Call("vision")})
  /\ notification' = "none"
  /\ ev' = Event("handleFileUpload", "read")
  /\ UNCHANGED <<mounted, loading, rawText, wizardVars>>
  /\ Quiet

\* the file has been read as text: reader.onload of part_000, the
\* statements after `await file.text()` of index
readerOnloadText(r) ==
  /\ mounted /\ BagIn(r, pending) /\ r.kind = "read" /\ r.op \in {"readAsText", "text"}
  /\ Len(rawText) + 2 <= MaxRaw
  /\ rawText' = rawText \o <<Newline>> \o FileText(r.file)
  /\ loading' = FALSE
  /\ pending' = pending (-) SetToBag({r})
  /\ notification' = "none"
  /\ ev' = Event("handleFileUpload", "resolved")
  /\ UNCHANGED <<mounted, wizardVars>>
  /\ Quiet

\* the read fails.  A FileReader reports that to onerror, which no revision
\* sets; the promise of file.text() rejects into the catch of index.
readFailed(r) ==
  /\ mounted /\ BagIn(r, pending) /\ r.kind = "read"
  /\ loading' = IF r.op = "text" THEN FALSE ELSE loading
  /\ pending' = pending (-) SetToBag({r})
  /\ notification' = "none"
  /\ ev' = Event("handleFileUpload", "readFailed")
  /\ UNCHANGED <<mounted, rawText, wizardVars>>
  /\ Quiet

\* the vision call answers: part_000 appends `response.text || ''`, index
\* appends response.text as it is
visionResolved(text) ==
  LET appended == IF variant = "part_000" THEN OrEmpty(text) ELSE text IN
  /\ mounted /\ BagIn(Call("vision"), pending)
  /\ Len(rawText) + 2 <= MaxRaw
  /\ rawText' = rawText \o <<Newline>> \o appended
  /\ loading' = FALSE
  /\ pending' = pending (-) SetToBag({Call("vision")})
  /\ notification' = "none"
  /\ ev' = Event("handleFileUpload", "resolved")
  /\ UNCHANGED <<mounted, wizardVars>>
  /\ Quiet

\* the vision call fails: part_000 catches it, alerts and clears loading;
\* in index the rejection leaves the async onload with nothing to catch it
visionRejected ==
  /\ mounted /\ BagIn(Call("vision"), pending)
  /\ notification' = IF variant = "part_000"
                       THEN "AI could not parse this file, please try manual input."
                       ELSE "none"
  /\ loading' = IF variant = "part_000" THEN FALSE ELSE loading
  /\ pending' = pending (-) SetToBag({Call("vision")})
  /\ ev' = Event("handleFileUpload", "rejected")
  /\ UNCHANGED <<mounted, rawText, wizardVars>>
  /\ Quiet

NextUpload ==
  \/ \E file \in FileTypes : handleFileUpload(file)
  \/ \E r \in BagToSet(pending) : readerOnloadDataURL(r)
  \/ \E r \in BagToSet(pending) : readerOnloadText(r)
  \/ \E r \in BagToSet(pending) : readFailed(r)
  \/ \E t \in VisionTexts : visionResolved(t)
  \/ visionRejected

\* ------------------------------------------------------------- the wizard
NextWizard ==
  \/ \E via \in Inputs : handleProcessBrainstorm(via)
  \/ \E t \in ExtractTexts : handleProcessBrainstormResolved(t)
  \/ handleProcessBrainstormRejected
  \/ \E via \in Inputs : handleFitCheck(via)
  \/ \E t \in JsonTexts(FitDocs) : handleFitCheckResolved(t)
  \/ handleFitCheckRejected
  \/ \E via \in Inputs : handleGenerateDraft(via)
  \/ \E t \in JsonTexts(DraftDocs) : handleGenerateDraftResolved(t)
  \/ handleGenerateDraftRejected
  \/ \E via \in Inputs, info \in {Empty, <<"x">>} : handleFinalPolish(via, info)
  \/ \E t \in PolishTexts : handleFinalPolishResolved(t)
  \/ handleFinalPolishRejected
  \/ \E v \in Edits(Displayed, {"u", Space}) :
       /\ Len(v) <= MaxTyped \/ (Len(v) < Len(Displayed) /\ Len(v) <= MaxRaw)
       /\ EditRawText(v)
  \/ \E v \in JdTexts : EditJd(v)
  \/ \E via \in Inputs, b \in BackButtons : Back(via, b[1], b[2])
  \/ \E via \in Inputs : StartOver(via)

\* the wizard on its own: the recognizers stay as the mount left them
InitWizard == Init /\ recognition.state = "idle"

SpecWizard == InitWizard /\ [][NextWizard]_vars

\* the wizard with an extraction call that does not answer twice alike
NextRevision ==
  \/ NextWizard
  \/ handleProcessBrainstormResolved(<<"E2">>)

SpecRevision == InitWizard /\ [][NextRevision]_vars

\* file upload with what else Brainstorm offers: the raw-input field, Extract
\* Experience, and the way back from FitInput
NextSession ==
  \/ NextUpload
  \/ \E via \in Inputs : handleProcessBrainstorm(via)
  \/ \E t \in ExtractTexts : handleProcessBrainstormResolved(t)
  \/ handleProcessBrainstormRejected
  \/ \E v \in Edits(Displayed, {"u", Space}) :
       /\ Len(v) <= MaxTyped \/ (Len(v) < Len(Displayed) /\ Len(v) <= MaxRaw)
       /\ EditRawText(v)
  \/ \E via \in Inputs : Back(via, 1, 0)

SpecSession == InitWizard /\ [][NextSession]_vars

\* voice input with Extract Experience and the way back from FitInput: the
\* microphone is left as it is when the wizard leaves Brainstorm
NextDictation ==
  \/ NextSpeech
  \/ \E via \in Inputs : handleProcessBrainstorm(via)
  \/ \E t \in ExtractTexts : handleProcessBrainstormResolved(t)
  \/ handleProcessBrainstormRejected
  \/ \E via \in Inputs : Back(via, 1, 0)

SpecDictation == Init /\ [][NextDictation]_vars

\* every handler and every event
Next == NextWizard \/ NextUpload \/ NextSpeech

Spec == Init /\ [][Next]_vars

\* ================================================================= claims
GenerationHandlers ==
  {"handleProcessBrainstorm", "handleFitCheck", "handleGenerateDraft", "handleFinalPolish"}

\* the last handler run was a generation call that failed: the call itself,
\* or the parsing of its response
Failed(e) == e.name \in GenerationHandlers /\ e.outcome \in {"rejected", "threw"}

\* C1: when a generation call fails or its response cannot be parsed, the
\* step and every artifact (raw input, Experience Document, Job Description,
\* Fit Analysis, Resume Draft, critiques, Final Resume) keep the values they
\* had before the failure was handled.
C1_ErrorPathKeepsState ==
  [][Failed(ev') =>
       /\ step' = step
       /\ rawText' = rawText
       /\ experienceDoc' = experienceDoc
       /\ jd' = jd
       /\ analysis' = analysis
       /\ resumeDraft' = resumeDraft
       /\ critiques' = critiques
       /\ finalResume' = finalResume]_vars

\* a drafting call has failed on its response in a session that holds an
\* Experience Document, a Job Description and a Fit Analysis
C1_Witness ==
  /\ ev = Event("handleGenerateDraft", "threw")
  /\ step = 2
  /\ Truthy(experienceDoc) /\ Truthy(jd) /\ analysis.kind = "object"

\* C2: every failure of a generation call raises an alert.
C2_EveryFailureAlerts ==
  [][Failed(ev') => notification' # "none"]_vars

\* a response of the comparison call that lacks a required field of the
\* schema: no body, an empty body, or a document without one of the six
MissingRequiredField(t) ==
  \/ t.form \in {"undefined", "empty"}
  \/ t.form = "json" /\ (t.doc.kind = "null" \/ t.doc.fields # AnalysisFields)

\* C3: Compute Fit with a response that lacks a required field leaves the
\* step at FitInput(1), does not store the response as the Fit Analysis and
\* raises an alert.
C3_MalformedFitIsRefused ==
  [][\A t \in JsonTexts(FitDocs) :
       (step = 1 /\ MissingRequiredField(t) /\ handleFitCheckResolved(t)) =>
         /\ step' = 1
         /\ analysis' = analysis
         /\ notification' # "none"]_vars

\* the artifact of a generation operation is fully populated
Populated(name, doc, an, draft, cr, final) ==
  CASE name = "handleProcessBrainstorm" -> Truthy(doc)
    [] name = "handleFitCheck" -> an.kind = "object" /\ an.fields = AnalysisFields
    [] name = "handleGenerateDraft" -> Truthy(draft) /\ cr # Undefined
    [] name = "handleFinalPolish" -> Truthy(final)
    [] OTHER -> TRUE

\* C4: whenever a generation operation sets the step, its output artifact
\* is fully populated; an empty or incomplete response never does.
C4_NoPartialSuccess ==
  [][(ev'.name \in GenerationHandlers /\ ev'.outcome = "resolved") =>
       Populated(ev'.name, experienceDoc', analysis', resumeDraft', critiques',
                 finalResume')]_vars

GenerationCalls == { c \in BagToSet(pending) : c.kind = "call" }
CallsInFlight == BagCardinality([c \in GenerationCalls |-> pending[c]])

\* C5: at most one generation call is in flight at any time.
C5_OneCallInFlight == CallsInFlight <= 1

\* C6 as claimed: a successful Extract Experience at Brainstorm moves the
\* step from 0 to 1 and leaves the Job Description and every later artifact
\* unset, whatever the session did before the invocation.  Stated for an
\* extraction that is the only call in flight and answers right after it was
\* invoked.
C6_ExtractLeavesLaterUnset ==
  [][(/\ step = 0
      /\ CallsInFlight = 1
      /\ ev = Event("handleProcessBrainstorm", "called")
      /\ ev' = Event("handleProcessBrainstorm", "resolved")) =>
       /\ step' = 1
       /\ jd' = Empty
       /\ analysis' = Null
       /\ resumeDraft' = Empty
       /\ critiques' = <<>>
       /\ finalResume' = Empty]_vars

\* C6 as amended: a successful Extract Experience sets the step to 1, which
\* is +1 from Brainstorm, and leaves the Job Description and every later
\* artifact as it was before.
C6_ExtractLeavesLaterUnchanged ==
  [][ev' = Event("handleProcessBrainstorm", "resolved") =>
       /\ step' = 1
       /\ step = 0 => step' = step + 1
       /\ UNCHANGED <<jd, analysis, resumeDraft, critiques, finalResume>>]_vars

\* an extraction has succeeded in a session that went back from FitInput
\* with a Job Description typed in
C6_Witness ==
  /\ ev = Event("handleProcessBrainstorm", "resolved")
  /\ step = 1
  /\ Truthy(jd)

\* C7: Start Over sets raw input, Job Description and Experience Document
\* to empty and the step to 0.
C7_StartOverResets ==
  [][ev'.name = "StartOver" =>
       /\ step = 4
       /\ step' = 0
       /\ rawText' = Empty
       /\ jd' = Empty
       /\ experienceDoc' = Empty]_vars

\* Start Over has run on a session that had reached Final
C7_Witness ==
  /\ ev = Event("StartOver", "ok")
  /\ step = 0
  /\ rawText = Empty /\ jd = Empty /\ experienceDoc = Empty
  /\ analysis.kind = "object"

\* the tokens that come from non-final results, and the decoration the
\* textarea draws around the displayed partial segment
InterimTokens == UNION { {t[i] : i \in 1..Len(t)} : t \in InterimTranscripts }
DecorationTokens == {"(", "...)"}

\* C8: raw input never holds text that was delivered only as a non-final
\* segment, nor the decoration displayed around it.
C8_PartialNeverCommitted ==
  \A i \in 1..Len(rawText) : rawText[i] \notin InterimTokens \cup DecorationTokens

FinalTokens == UNION { {t[i] : i \in 1..Len(t)} : t \in FinalTranscripts }
IsFinalToken(c) == c \in FinalTokens

\* the final segments a text holds, in order
Finals(t) == SelectSeq(t, IsFinalToken)

\* C9: a result event appends each of its final segments to raw input
\* exactly once, after the final segments raw input already holds and in
\* the order of the event.
C9_FinalsAppendedOnceInOrder ==
  [][ev'.name = "onresult" =>
       \A results \in ResultLists :
         (rawText' = onresultRawText(results) /\ onresult(results)) =>
           Finals(rawText') = Finals(rawText) \o Transcripts(SelectSeq(results, IsFinal))]_vars

\* two result events have delivered F2 and then F1
C9_Witness ==
  /\ ev = Event("onresult", "ok")
  /\ Finals(rawText) = <<"F2", "F1">>
  /\ Len(rawText) = 4

\* C10: stopping the recording while a partial segment is displayed leaves
\* raw input unchanged and clears the displayed partial segment.
C10_StopDiscardsPartial ==
  [][(isRecording /\ Truthy(interimText) /\ ev'.name = "toggleRecording") =>
       /\ rawText' = rawText
       /\ interimText' = Empty
       /\ ~isRecording']_vars

\* the recording has been stopped while a partial segment was displayed
C10_Witness ==
  /\ ev = Event("toggleRecording", "discarded")
  /\ ~isRecording
  /\ interimText = Empty

\* the operation whose successful completion belongs to a step
OperationOf(s) ==
  CASE s = 0 -> "handleProcessBrainstorm"
    [] s = 1 -> "handleFitCheck"
    [] s = 2 -> "handleGenerateDraft"
    [] s = 3 -> "handleFinalPolish"
    [] OTHER -> "none"

\* C11: every change of the step is +1 by the successful completion of the
\* operation of the current step, or -1 by a back button, or a reset to 0 by
\* Start Over; no completion of a call moves the step backward or skips a
\* step.
C11_StepChangesByOne ==
  [][step' # step =>
       \/ /\ ev' = Event(OperationOf(step), "resolved")
          /\ step' = step + 1
       \/ /\ ev'.name = "Back"
          /\ step' = step - 1
       \/ /\ ev'.name = "StartOver"
          /\ step' = 0]_vars

\* C12: a back button (from FitInput, from FitResult by the arrow or by
\* Modify JD, from Final) lowers the step by exactly one and leaves the
\* Experience Document, the Fit Analysis, the Resume Draft, the critiques,
\* the Final Resume, raw input and the Job Description unchanged.
C12_BackChangesOnlyStep ==
  [][ev'.name = "Back" =>
       /\ step' = step - 1
       /\ UNCHANGED <<experienceDoc, analysis, resumeDraft, critiques,
                      finalResume, rawText, jd>>]_vars

\* the session has gone back from Final with every artifact computed
C12_Witness ==
  /\ ev = Event("Back", "ok")
  /\ step = 3
  /\ mounted
  /\ Truthy(experienceDoc) /\ Truthy(jd) /\ analysis.kind = "object"
  /\ Truthy(resumeDraft) /\ Truthy(finalResume)

\* C13: a successful Polish invoked at Draft through Apply & Regenerate with
\* correction text keeps the step at Draft(3); only accepting the draft moves
\* the step to Final(4).
C13_ApplyCorrectionsStaysAtDraft ==
  [][\A c \in PolishCalls :
       (/\ step = 3
        /\ Truthy(c.additionalInfo)
        /\ ev' = Event("handleFinalPolish", "resolved")
        /\ pending' = pending (-) SetToBag({c})) =>
         step' = 3]_vars

\* the last handler run was an activation of the Organize or the Run Fit
\* Check button
Invoked(e) ==
  /\ e.name \in {"handleProcessBrainstorm", "handleFitCheck"}
  /\ e.outcome \in {"called", "ignored"}

\* the text input of the operation a handler belongs to
InputOf(name) == IF name = "handleProcessBrainstorm" THEN rawText ELSE jd

\* C14: invoking Extract Experience on empty or whitespace-only raw input,
\* or Compute Fit on an empty or whitespace-only Job Description, issues no
\* generation call, does not set the loading flag, raises no notification
\* and leaves the step, the text inputs and every artifact unchanged.
C14_InputGuardsAreNoOps ==
  [][(Invoked(ev') /\ trim(InputOf(ev'.name)) = Empty) =>
       /\ pending' = pending
       /\ loading' = loading
       /\ notification' = "none"
       /\ UNCHANGED <<rawText, wizardVars>>]_vars

\* Compute Fit has been invoked on a whitespace-only Job Description
C14_Witness ==
  /\ ev = Event("handleFitCheck", "ignored")
  /\ step = 1
  /\ jd = <<Space>>
  /\ pending = EmptyBag /\ ~loading

\* the response texts of the extraction call that are texts
WellFormedExtractTexts == ExtractTexts \ {Undefined}

\* C15: a successful Extract Experience sets the Experience Document to
\* exactly the text of the response, for every response that carries a text,
\* and the step to 1.
C15_ExtractStoresResponse ==
  [][\A t \in WellFormedExtractTexts :
       handleProcessBrainstormResolved(t) =>
         /\ experienceDoc' = t
         /\ step' = 1]_vars

\* an extraction has answered with a text, which is now the Experience
\* Document
C15_Witness ==
  /\ ev = Event("handleProcessBrainstorm", "resolved")
  /\ experienceDoc = <<"E1">>
  /\ experienceDoc # rawText
  /\ step = 1

\* C16: when the vision call of an image or PDF upload fails, an alert is
\* raised, raw input stays as it was and the loading flag ends false.
C16_VisionFailureIsReported ==
  [][ev' = Event("handleFileUpload", "rejected") =>
       /\ notification' # "none"
       /\ rawText' = rawText
       /\ ~loading']_vars

\* s is the start of t / the end of t
IsPrefix(s, t) == Len(s) <= Len(t) /\ SubSeq(t, 1, Len(s)) = s
IsSuffix(s, t) == Len(s) <= Len(t) /\ SubSeq(t, Len(t) - Len(s) + 1, Len(t)) = s

\* the file of a read in flight has been read
ReadDone(r) == r.kind = "read" /\ (readerOnloadDataURL(r) \/ readerOnloadText(r))

\* C17: once the file of an image or PDF upload is read, exactly one vision
\* call is issued and raw input is not touched; when that call answers with
\* a text, raw input is the previous raw input followed by text that ends
\* with the answer; once the file of a plain-text upload is read, no
\* generation call is issued and raw input is the previous raw input
\* followed by text that ends with the content of the file.
C17_UploadAppends ==
  [][/\ \A r \in BagToSet(pending) :
          (ReadDone(r) /\ r.file \in {"image", "pdf"}) =>
            /\ pending' = (pending (-) SetToBag({r})) (+) SetToBag({Call("vision")})
            /\ rawText' = rawText
     /\ \A r \in BagToSet(pending) :
          (ReadDone(r) /\ r.file = "text") =>
            /\ pending' = pending (-) SetToBag({r})
            /\ IsPrefix(rawText, rawText')
            /\ IsSuffix(FileText(r.file), rawText')
     /\ \A t \in VisionTexts \ {Undefined} :
          visionResolved(t) =>
            /\ pending' = pending (-) SetToBag({Call("vision")})
            /\ IsPrefix(rawText, rawText')
            /\ IsSuffix(t, rawText')]_vars

\* C18: a recognition error event leaves the controller not recording,
\* raises no alert and changes neither raw input nor the step.
C18_RecognitionErrorStopsQuietly ==
  [][ev'.name = "onerror" =>
       /\ ~isRecording'
       /\ notification' = "none"
       /\ rawText' = rawText
       /\ step' = step]_vars

\* a recognition error has arrived while the controller was recording, with
\* dictated text in raw input
C18_Witness ==
  /\ ev = Event("onerror", "stopped")
  /\ ~isRecording
  /\ Finals(rawText) # <<>>

\* C19: when the browser offers no speech recognition, pressing the
\* microphone button never puts the controller into the recording state and
\* never changes raw input.
C19_NoRecognitionNoRecording ==
  [][(recognition.state = "absent" /\ ev'.name = "toggleRecording") =>
       /\ ~isRecording'
       /\ rawText' = rawText]_vars

\* C20: the loading flag is true in every state in which a generation call
\* (Extract, Compute Fit, Draft, Polish or the vision call of an upload) is
\* in flight.
C20_LoadingWhileCallInFlight == CallsInFlight > 0 => loading

\* C21: raw input changes only at Brainstorm(0): from a state with step >= 1
\* no speech result, upload completion or edit changes raw input; the only
\* change there is the clearing by Start Over.
C21_RawTextOnlyAtBrainstorm ==
  [][(step >= 1 /\ rawText' # rawText) =>
       (ev'.name = "StartOver" /\ rawText' = Empty)]_vars

\* C22: once an extraction has set the Experience Document, no action other
\* than Start Over changes it, not even going back and extracting again.
\* Stated for an extraction that is the only call in flight, answers right
\* after it was invoked and answers with a text.
C22_ExperienceDocImmutable ==
  [][(/\ Truthy(experienceDoc)
      /\ CallsInFlight = 1
      /\ ev = Event("handleProcessBrainstorm", "called")
      /\ ev' = Event("handleProcessBrainstorm", "resolved")
      /\ Truthy(experienceDoc')) =>
       experienceDoc' = experienceDoc]_vars

\* C23: a successful Polish replaces the Resume Draft by the polished text,
\* so that a second Polish would take the output of the first as its input.
\* Stated for a polishing call of a non-empty draft that is the only call in
\* flight, answers right after it was invoked and answers with a text.
C23_PolishReplacesDraft ==
  [][(/\ Truthy(resumeDraft)
      /\ CallsInFlight = 1
      /\ ev = Event("handleFinalPolish", "called")
      /\ ev' = Event("handleFinalPolish", "resolved")) =>
       \A t \in PolishTexts :
         (Truthy(t) /\ handleFinalPolishResolved(t)) => resumeDraft' = t]_vars

\* C24: whenever isRecording is true, the recognizer the component holds has
\* been started and has not been stopped.  Stated for a browser that has a
\* recognizer to hold.
C24_RecordingMeansStarted ==
  (isRecording /\ recognition.state # "absent") =>
    recognition.state = "started"

\* C25: once the microphone button has ended recording, no recognizer the
\* component created is still started (so none can append a later result).
C25_StopLeavesNoneStarted ==
  [][(isRecording /\ ev'.name = "toggleRecording" /\ ~isRecording') =>
       \A r \in {recognition'} \cup BagToSet(orphans') : r.state # "started"]_vars

\* C26: loading is never stuck: when no operation is in flight any more,
\* whichever way the last one ended, loading is false.
C26_LoadingNeverStuck ==
  pending = EmptyBag => ~loading

\* C27: pipeline consistency, for the Fit Analysis: when a comparison puts
\* the wizard at step 2, the Job Description its prompt carried is the Job
\* Description that is stored then.  Stated for a comparison that is the only
\* call in flight.
C27_FitComputedFromStoredJd ==
  [][(/\ CallsInFlight = 1
      /\ ev' = Event("handleFitCheck", "resolved")
      /\ step' = 2) =>
       \A c \in FitCalls : c.jd = jd']_vars

\* C28: whenever the step is FitResult (2), a Fit Analysis is present: the
\* stored analysis is not null.
C28_FitResultHasAnalysis ==
  step = 2 => analysis.kind # "null"

\* C29: in every state with step >= 2 the stored Job Description is non-empty
\* after trimming, and in every state with step >= 1 raw input is non-empty
\* after trimming.
C29_InputsStayNonBlank ==
  /\ step >= 2 => trim(jd) # Empty
  /\ step >= 1 => trim(rawText) # Empty

\* C30: the displayed partial segment is empty whenever the controller is
\* not recording.
C30_NoPartialWhenNotRecording ==
  ~isRecording => interimText = Empty

====
